---------------------------- MODULE Spec2Model ----------------------------
(***************************************************************************)
(* A model of the pentomino exact-cover solver (pentomino_solver.py) and   *)
(* of the worker/cancel protocol of its GUI (pentomino_gui.py).            *)
(*                                                                         *)
(* Cells are pairs <<r, c>>.  A catalog maps labels to lists of offset     *)
(* cells.  Labels are the code points of their characters, so that         *)
(* Python's sorted() on labels and its comparison of grid strings are      *)
(* integer comparisons here.  An Optional value is a set of at most one    *)
(* element: None is {} and a present value x is {x}.                       *)
(***************************************************************************)
EXTENDS Integers, Sequences, FiniteSets, TLC

VARIABLES
    board,                  \* PentominoSolver.board: list of cells
    pentominoes,            \* PentominoSolver.pentominoes: label -> shape
    all_piece_orientations, \* label -> orientations, in set-iteration order
    max_solutions,          \* Optional cap given to solve
    stop_event,             \* threading.Event.is_set()
    matrix,                 \* solve's local: rows of (row_info, row_data)
    root,                   \* PentominoSolver.root: Optional node
    dlx,                    \* the arena of Node/Column objects
    solutions,              \* PentominoSolver.solutions
    canonical_solutions,    \* PentominoSolver.canonical_solutions
    partial_solution,       \* the list threaded through _search
    stack,                  \* active _search frames: local c and r of each
    pc,                     \* position of the worker thread
    progress,               \* counts handed to progress_callback, in order
    posted,                 \* Optional arguments posted to on_solver_finished
    gui,                    \* GUI fields set by on_solver_finished
    obs,                    \* observations of the run, read by the properties
    og,                     \* generate_orientations applied to a drawn shape
    row_idx,                \* _build_dlx_links: index of the next matrix row
    app                     \* the PentominoGUI object and the threads it started

vars == <<board, pentominoes, all_piece_orientations, max_solutions,
          stop_event, matrix, root, dlx, solutions, canonical_solutions,
          partial_solution, stack, pc, progress, posted, gui, obs, og,
          row_idx, app>>

(***************************************************************************)
(* Bounds of the model.                                                    *)
(***************************************************************************)
MaxRows == 2          \* boards lie in rows 0 .. MaxRows-1
MaxCols == 3          \* boards lie in columns 0 .. MaxCols-1
MaxBoardCells == 4    \* a board has at most this many cells
MaxPieces == 2        \* a catalog has at most this many pieces
MaxCap == 2           \* max_solutions is None or in 1 .. MaxCap
MaxShapeDim == 3      \* drawn shapes lie in a MaxShapeDim x MaxShapeDim window
MaxShapeCells == 5    \* drawn shapes have at most this many cells
MaxActiveCells == 5   \* the editor holds at most this many selected squares
MaxWorkers == 2       \* the GUI starts at most this many worker threads
MaxFound == 1         \* an abstracted worker returns at most this many solutions

None == {}
Some(x) == {x}
The(s) == CHOOSE x \in s : TRUE
\* The({body : x \in {e}}) is body with x standing for the value of e: the
\* form used for the local variables of the loops, each assigned once per
\* pass, so that e is evaluated once.

Range(s) == {s[i] : i \in DOMAIN s}

Min(S) == CHOOSE x \in S : \A y \in S : x <= y
Max(S) == CHOOSE x \in S : \A y \in S : x >= y

\* Python's order on pairs of integers.
CellLeq(a, b) == a[1] < b[1] \/ (a[1] = b[1] /\ a[2] <= b[2])

RECURSIVE Insert(_, _)
Insert(x, s) ==
    IF s = <<>> THEN <<x>>
    ELSE IF CellLeq(x, Head(s)) THEN <<x>> \o s
    ELSE <<Head(s)>> \o Insert(x, Tail(s))

\* sorted() on a list of cells.
RECURSIVE sorted(_)
sorted(s) == IF s = <<>> THEN <<>> ELSE Insert(Head(s), sorted(Tail(s)))

\* The cells of a finite set, listed in row-major order.
RECURSIVE RowMajor(_)
RowMajor(S) ==
    IF S = {} THEN <<>>
    ELSE LET m == CHOOSE x \in S : \A y \in S : CellLeq(x, y)
         IN <<m>> \o RowMajor(S \ {m})

(***************************************************************************)
(* 1. Orientation generator                                                *)
(***************************************************************************)
normalize(p) ==
    LET min_r == Min({p[i][1] : i \in DOMAIN p})
        min_c == Min({p[i][2] : i \in DOMAIN p})
    IN sorted([i \in DOMAIN p |-> <<p[i][1] - min_r, p[i][2] - min_c>>])

rotate_90(p) == [i \in DOMAIN p |-> <<0 - p[i][2], p[i][1]>>]

flip(p) == [i \in DOMAIN p |-> <<0 - p[i][1], p[i][2]>>]

\* set.add on a set kept as the list of its members in iteration order.
SetAdd(s, x) == IF x \in Range(s) THEN s ELSE Append(s, x)

\* The inner loop: k rotations still to add, starting from p2.
RECURSIVE RotLoop(_, _, _)
RotLoop(p2, k, orientations) ==
    IF k = 0 THEN orientations
    ELSE RotLoop(rotate_90(p2), k - 1, SetAdd(orientations, normalize(p2)))

\* The outer loop: f flip states still to do, starting from p1, with
\* nrot rotations for each.
RECURSIVE FlipLoop(_, _, _, _)
FlipLoop(p1, f, nrot, orientations) ==
    IF f = 0 THEN orientations
    ELSE FlipLoop(flip(p1), f - 1, nrot, RotLoop(p1, nrot, orientations))

\* A generator that adds only two of the four rotations of each flip state.
generate_orientations_two_rotations(piece) == FlipLoop(piece, 2, 2, <<>>)

generate_orientations(piece) == FlipLoop(piece, 2, 4, <<>>)

(***************************************************************************)
(* 2. Inputs: boards and catalogs                                          *)
(***************************************************************************)
\* The blank of a grid, ' ', as a code point.
Blank == 32

\* The shapes catalogs are drawn from: two dominoes, an L-tromino and the
\* P pentomino of PENTOMINOES, under the labels 'D' (68), 'E' (69), 'K' (75)
\* and 'P' (80).
Shapes ==
    (68 :> << <<0, 0>>, <<0, 1>> >>) @@
    (69 :> << <<0, 0>>, <<0, 1>> >>) @@
    (75 :> << <<0, 1>>, <<1, 0>>, <<1, 1>> >>) @@
    (80 :> << <<0, 0>>, <<0, 1>>, <<1, 0>>, <<1, 1>>, <<2, 0>> >>)

Catalogs ==
    {[l \in S |-> Shapes[l]] :
        S \in {T \in SUBSET (DOMAIN Shapes) : Cardinality(T) <= MaxPieces}}

Window == (0 .. MaxRows - 1) \X (0 .. MaxCols - 1)

\* normalize_board leaves the least row and the least column at zero.
Normalized(S) == (\E x \in S : x[1] = 0) /\ (\E x \in S : x[2] = 0)

\* Boards in the order generate_board_shape lists them: row by row.
Boards ==
    {RowMajor(S) :
        S \in {T \in SUBSET Window :
                 T # {} /\ Cardinality(T) <= MaxBoardCells /\ Normalized(T)}}

Caps == {None} \cup {Some(k) : k \in 1 .. MaxCap}

(***************************************************************************)
(* 3. PentominoSolver: construction and the placement matrix               *)
(***************************************************************************)
\* board_map[pos], counting positions from 1; a later duplicate wins.
board_map(b, pos) == Max({i \in DOMAIN b : b[i] = pos})

board_height(b) == Max({b[i][1] : i \in DOMAIN b}) + 1
board_width(b) == Max({b[i][2] : i \in DOMAIN b}) + 1

\* sorted() on a set of labels.
RECURSIVE SortedLabels(_)
SortedLabels(S) ==
    IF S = {} THEN <<>> ELSE <<Min(S)>> \o SortedLabels(S \ {Min(S)})

RECURSIVE Concat(_)
Concat(ss) ==
    IF ss = <<>> THEN <<>>
    ELSE The({Head(ss) \o Concat(t) : t \in {Tail(ss)}})

IndexOf(s, x) == Min({i \in DOMAIN s : s[i] = x})

new_pos(orientation, anchor) ==
    [i \in DOMAIN orientation |->
        <<anchor[1] + orientation[i][1], anchor[2] + orientation[i][2]>>]

\* The test of line 124: every translated cell is a key of board_map.
Fits(b, np) == \A i \in DOMAIN np : np[i] \in Range(b)

\* A test that accepts a placement as soon as one of its cells is on the
\* board.
FitsAny(b, np) == \E i \in DOMAIN np : np[i] \in Range(b)

\* Lines 125-129: the row of a placement, a 1 in the column of its piece
\* and in the column of each of its cells.
MatrixRow(b, piece_names, piece_name, orientation, anchor) ==
    The({[row_info |-> <<piece_name, orientation, anchor>>,
          row_data |-> [k \in 1 .. Len(piece_names) + Len(b) |->
                           IF k \in hit THEN 1 ELSE 0]] :
          hit \in {{Len(piece_names) + board_map(b, np[i]) : i \in DOMAIN np}
                    \cup {IndexOf(piece_names, piece_name)} :
            np \in {new_pos(orientation, anchor)}}})

\* A row that marks only those cells of the placement that are on the board.
MatrixRowClipped(b, piece_names, piece_name, orientation, anchor) ==
    LET np == new_pos(orientation, anchor)
        hit == {Len(piece_names) + board_map(b, np[i]) :
                   i \in {k \in DOMAIN np : np[k] \in Range(b)}}
               \cup {IndexOf(piece_names, piece_name)}
    IN [row_info |-> <<piece_name, orientation, anchor>>,
        row_data |-> [k \in 1 .. Len(piece_names) + Len(b) |->
                         IF k \in hit THEN 1 ELSE 0]]

\* A builder that keeps a placement with only some of its cells on the board.
build_matrix_any(b, cat, orients) ==
    LET piece_names == SortedLabels(DOMAIN cat)
    IN Concat([pi \in DOMAIN piece_names |->
         Concat([oi \in DOMAIN orients[piece_names[pi]] |->
           Concat([bi \in DOMAIN b |->
             IF FitsAny(b, new_pos(orients[piece_names[pi]][oi], b[bi]))
             THEN <<MatrixRowClipped(b, piece_names, piece_names[pi],
                                     orients[piece_names[pi]][oi], b[bi])>>
             ELSE <<>>])])])

\* The three nested loops of _build_dlx_matrix run to their end.
build_matrix(b, cat, orients) ==
    The({Concat([pi \in DOMAIN piece_names |->
           Concat([oi \in DOMAIN orients[piece_names[pi]] |->
             Concat([bi \in DOMAIN b |->
               IF Fits(b, new_pos(orients[piece_names[pi]][oi], b[bi]))
               THEN <<MatrixRow(b, piece_names, piece_names[pi],
                                orients[piece_names[pi]][oi], b[bi])>>
               ELSE <<>>])])]) :
          piece_names \in {SortedLabels(DOMAIN cat)}})

\* How often the cancellation check of line 119 runs in a full build.
MatrixIterations(b, cat, orients) ==
    Len(Concat([pi \in DOMAIN SortedLabels(DOMAIN cat) |->
            Concat([oi \in DOMAIN orients[SortedLabels(DOMAIN cat)[pi]] |->
                [bi \in DOMAIN b |-> 1]])]))

(***************************************************************************)
(* 4. Dancing links: the arena, cover and uncover                          *)
(*                                                                         *)
(* Node 0 is the root, nodes 1 .. n are the columns in col_names order,    *)
(* and the nodes of the rows follow in the order they are created.         *)
(***************************************************************************)
RootId == 0

\* A header ring that leaves the first column out: root.R is the second.
HeaderRingWithoutFirst(n) ==
    [L      |-> [i \in 0 .. n |-> IF i = 1 THEN 1
                                  ELSE IF i = 0 THEN n
                                  ELSE IF i = 2 THEN 0 ELSE i - 1],
     R      |-> [i \in 0 .. n |-> IF i = 1 THEN 1
                                  ELSE IF i = n THEN 0
                                  ELSE IF i = 0 /\ n >= 2 THEN 2
                                  ELSE IF i = 0 THEN 0 ELSE i + 1],
     U      |-> [i \in 0 .. n |-> i],
     D      |-> [i \in 0 .. n |-> i],
     col    |-> [i \in 0 .. n |-> i],
     row_id |-> [i \in 0 .. n |-> None],
     size   |-> [i \in 0 .. n |-> 0]]

\* Column("root") and the columns, linked into the header ring.
HeaderRing(n) ==
    [L      |-> [i \in 0 .. n |-> IF i = 0 THEN n ELSE i - 1],
     R      |-> [i \in 0 .. n |-> IF i = n THEN 0 ELSE i + 1],
     U      |-> [i \in 0 .. n |-> i],
     D      |-> [i \in 0 .. n |-> i],
     col    |-> [i \in 0 .. n |-> i],
     row_id |-> [i \in 0 .. n |-> None],
     size   |-> [i \in 0 .. n |-> 0]]

\* A node linked into its column without the column's size going up.
AddNode_no_size(ls, c, row_info, last_node) ==
    LET new == Cardinality(DOMAIN ls.L)
        up == ls.U[c]
        a == [ls EXCEPT
                !.D = (new :> c) @@ [ls.D EXCEPT ![up] = new],
                !.U = (new :> up) @@ [ls.U EXCEPT ![c] = new],
                !.col = (new :> c) @@ ls.col,
                !.row_id = (new :> Some(row_info)) @@ ls.row_id]
    IN IF last_node = None
       THEN [a EXCEPT !.L = (new :> new) @@ ls.L,
                      !.R = (new :> new) @@ ls.R]
       ELSE LET last == The(last_node)
                nxt == ls.R[last]
            IN [a EXCEPT
                  !.L = (new :> last) @@ [ls.L EXCEPT ![nxt] = new],
                  !.R = (new :> nxt) @@ [ls.R EXCEPT ![last] = new]]

\* Lines 153-170: a new node at the bottom of column c, after last_node in
\* its row (last_node is None for the first node of a row).
AddNode(ls, c, row_info, last_node) ==
    LET new == Cardinality(DOMAIN ls.L)
        up == ls.U[c]
        a == [ls EXCEPT
                !.D = (new :> c) @@ [ls.D EXCEPT ![up] = new],
                !.U = (new :> up) @@ [ls.U EXCEPT ![c] = new],
                !.col = (new :> c) @@ ls.col,
                !.row_id = (new :> Some(row_info)) @@ ls.row_id,
                !.size = [ls.size EXCEPT ![c] = @ + 1]]
    IN IF last_node = None
       THEN [a EXCEPT !.L = (new :> new) @@ ls.L,
                      !.R = (new :> new) @@ ls.R]
       ELSE LET last == The(last_node)
                nxt == ls.R[last]
            IN [a EXCEPT
                  !.L = (new :> last) @@ [ls.L EXCEPT ![nxt] = new],
                  !.R = (new :> nxt) @@ [ls.R EXCEPT ![last] = new]]

\* The loop over the cells of one row, from column index k on.
RECURSIVE LinkRow(_, _, _, _)
LinkRow(ls, row, k, last_node) ==
    IF k > Len(row.row_data) THEN ls
    ELSE IF row.row_data[k] = 1
         THEN The({LinkRow(a, row, k + 1, Some(Cardinality(DOMAIN ls.L))) :
                    a \in {AddNode(ls, k, row.row_info, last_node)}})
         ELSE LinkRow(ls, row, k + 1, last_node)

\* An inner loop of cover that leaves the sizes as they are.
RECURSIVE CoverRow_keep_size(_, _, _)
CoverRow_keep_size(ls, i, j) ==
    IF j = i THEN ls
    ELSE LET a == [ls EXCEPT !.U[ls.D[j]] = ls.U[j]]
             b == [a EXCEPT !.D[a.U[j]] = a.D[j]]
         IN CoverRow_keep_size(b, i, b.R[j])

\* The inner loop of cover: unlink the nodes of row i other than i itself.
RECURSIVE CoverRow(_, _, _)
CoverRow(ls, i, j) ==
    IF j = i THEN ls
    ELSE The({CoverRow(d, i, d.R[j]) :
               d \in {[b EXCEPT !.size[b.col[j]] = @ - 1] :
                 b \in {[a EXCEPT !.D[a.U[j]] = a.D[j]] :
                   a \in {[ls EXCEPT !.U[ls.D[j]] = ls.U[j]]}}}})

\* The outer loop of cover: the nodes of column c, downwards.
RECURSIVE CoverRows(_, _, _)
CoverRows(ls, c, i) ==
    IF i = c THEN ls
    ELSE The({CoverRows(a, c, a.D[i]) : a \in {CoverRow(ls, i, ls.R[i])}})

cover(ls, c) ==
    The({CoverRows(b, c, b.D[c]) :
          b \in {[a EXCEPT !.R[a.L[c]] = a.R[c]] :
            a \in {[ls EXCEPT !.L[ls.R[c]] = ls.L[c]]}}})

\* The inner loop of uncover: relink the nodes of row i, leftwards.
RECURSIVE UncoverRow(_, _, _)
UncoverRow(ls, i, j) ==
    IF j = i THEN ls
    ELSE The({UncoverRow(d, i, d.L[j]) :
               d \in {[b EXCEPT !.D[b.U[j]] = j] :
                 b \in {[a EXCEPT !.U[a.D[j]] = j] :
                   a \in {[ls EXCEPT !.size[ls.col[j]] = @ + 1]}}}})

\* The outer loop of uncover: the nodes of column c, upwards.
RECURSIVE UncoverRows(_, _, _)
UncoverRows(ls, c, i) ==
    IF i = c THEN ls
    ELSE The({UncoverRows(a, c, a.U[i]) : a \in {UncoverRow(ls, i, ls.L[i])}})

\* An uncover that does not put the column back into the header ring.
uncover_rows_only(ls, c) == UncoverRows(ls, c, ls.U[c])

uncover(ls, c) ==
    The({[b EXCEPT !.R[b.L[c]] = c] :
          b \in {[a EXCEPT !.L[a.R[c]] = c] :
            a \in {UncoverRows(ls, c, ls.U[c])}}})

(***************************************************************************)
(* 5. Canonical form of a solution                                         *)
(***************************************************************************)
\* Assignments that write the same mark, 'X', for every piece.
RECURSIVE PutCells_one_label(_, _, _, _, _)
PutCells_one_label(grid, b, placement, k, n) ==
    IF k > n THEN grid
    ELSE LET r == placement[3][1] + placement[2][k][1]
             c == placement[3][2] + placement[2][k][2]
         IN PutCells_one_label(IF 0 <= r /\ r < board_height(b)
                                  /\ 0 <= c /\ c < board_width(b)
                               THEN [grid EXCEPT ![r + 1][c + 1] = 88]
                               ELSE grid,
                               b, placement, k + 1, n)

\* The assignments grid[r][c] = piece_name of one placement, cell k on.
RECURSIVE PutCells(_, _, _, _, _)
PutCells(grid, b, placement, k, n) ==
    IF k > n THEN grid
    ELSE LET r == placement[3][1] + placement[2][k][1]
             c == placement[3][2] + placement[2][k][2]
         IN PutCells(IF 0 <= r /\ r < board_height(b)
                        /\ 0 <= c /\ c < board_width(b)
                     THEN [grid EXCEPT ![r + 1][c + 1] = placement[1]]
                     ELSE grid,
                     b, placement, k + 1, n)

\* The loop over the placements of a solution, placement i on.
RECURSIVE PutPlacements(_, _, _, _)
PutPlacements(grid, b, solution, i) ==
    IF i > Len(solution) THEN grid
    ELSE PutPlacements(PutCells(grid, b, solution[i], 1, Len(solution[i][2])),
                       b, solution, i + 1)

\* A grid is the tuple of its rows; a row is the list of its characters.
solution_to_grid(b, solution) ==
    PutPlacements([r \in 1 .. board_height(b) |->
                      [c \in 1 .. board_width(b) |-> Blank]],
                  b, solution, 1)

h_flip(grid) ==
    [r \in DOMAIN grid |->
        [c \in DOMAIN grid[r] |-> grid[r][Len(grid[r]) + 1 - c]]]

v_flip(grid) == [r \in DOMAIN grid |-> grid[Len(grid) + 1 - r]]

\* Python's order on tuples of equally long strings: the first differing
\* character decides.
GridLeq(g, h) ==
    \/ g = h
    \/ \E r \in DOMAIN g : \E c \in DOMAIN g[r] :
          /\ g[r][c] < h[r][c]
          /\ \A r2 \in DOMAIN g : \A c2 \in DOMAIN g[r2] :
                (r2 < r \/ (r2 = r /\ c2 < c)) => g[r2][c2] = h[r2][c2]

forms(grid) == {grid, h_flip(grid), v_flip(grid), h_flip(v_flip(grid))}

\* A canonical form that skips the symmetries.
get_canonical_solution_identity(b, solution) == solution_to_grid(b, solution)

get_canonical_solution(b, solution) ==
    LET f == forms(solution_to_grid(b, solution))
    IN CHOOSE g \in f : \A h \in f : GridLeq(g, h)

(***************************************************************************)
(* 6. The loops of _search                                                 *)
(***************************************************************************)
\* A scan that moves on to a later column of equal size.
RECURSIVE ChooseLoopLast(_, _, _)
ChooseLoopLast(ls, c, j) ==
    IF j = RootId THEN c
    ELSE ChooseLoopLast(ls, IF ls.size[j] <= ls.size[c] THEN j ELSE c,
                        ls.R[j])

choose_column_last_tie(ls) ==
    ChooseLoopLast(ls, ls.R[RootId], ls.R[ls.R[RootId]])

\* Lines 250-255: the first column of least size, scanning rightwards.
RECURSIVE ChooseLoop(_, _, _)
ChooseLoop(ls, c, j) ==
    IF j = RootId THEN c
    ELSE ChooseLoop(ls, IF ls.size[j] < ls.size[c] THEN j ELSE c, ls.R[j])

choose_column(ls) == ChooseLoop(ls, ls.R[RootId], ls.R[ls.R[RootId]])

\* Lines 262-265: cover the columns of the other nodes of row r, rightwards.
RECURSIVE CoverRowCols(_, _, _)
CoverRowCols(ls, r, j) ==
    IF j = r THEN ls
    ELSE The({CoverRowCols(a, r, a.R[j]) : a \in {cover(ls, ls.col[j])}})

\* The columns of the other nodes of row r uncovered rightwards, in the
\* order in which they were covered.
RECURSIVE UncoverRightwards(_, _, _)
UncoverRightwards(ls, r, j) ==
    IF j = r THEN ls
    ELSE LET a == uncover(ls, ls.col[j]) IN UncoverRightwards(a, r, a.R[j])

UncoverRowCols_covering_order(ls, r, j) == UncoverRightwards(ls, r, ls.R[r])

\* Lines 271-274: uncover them again, leftwards.
RECURSIVE UncoverRowCols(_, _, _)
UncoverRowCols(ls, r, j) ==
    IF j = r THEN ls
    ELSE The({UncoverRowCols(a, r, a.L[j]) : a \in {uncover(ls, ls.col[j])}})

\* Where a return from _search leads: to the caller's backtracking, or out
\* of solve.
ReturnPc(st) == IF st = <<>> THEN "returned" ELSE "search_backtrack"

Top(st) == st[Len(st)]
Pop(st) == SubSeq(st, 1, Len(st) - 1)

(***************************************************************************)
(* 7. The state machine                                                    *)
(***************************************************************************)
EmptyArena ==
    [L |-> <<>>, R |-> <<>>, U |-> <<>>, D |-> <<>>,
     col |-> <<>>, row_id |-> <<>>, size |-> <<>>]

ObsInit ==
    [stop_at_call |-> FALSE,   \* the flag was set when solve was called
     sols_at_stop |-> <<>>,    \* solutions when the flag was set
     cut_short |-> FALSE,      \* a cancellation check ended the work early
     aborted |-> "none",       \* the build that a cancellation check abandoned
     raw |-> <<>>,             \* every full solution the search reached
     run |-> 1,                \* which invocation of solve this is
     first_result |-> None,    \* what the first invocation returned
     entry |-> <<>>]           \* per depth of _search: the arena and the
                               \* partial solution at the entry of the call

\* What a call of _search finds at its entry.
AtEntry(ls, partial) == [dlx |-> ls, partial_solution |-> partial]

OgIdle == [piece |-> <<>>, result |-> None]

\* PentominoGUI.__init__: the widgets as created and the fields of lines
\* 115-119, with no thread started yet.
AppInit ==
    [active_cells        |-> 0,           \* len(self.active_cells)
     limit_solutions_var |-> FALSE,
     max_solutions_var   |-> None,        \* the entry's text as an integer,
                                          \* None when int() rejects it
     max_solutions_entry |-> "disabled",
     solve_button        |-> "normal",
     clear_button        |-> "disabled",
     cancel_button       |-> "disabled",
     new_puzzle_button   |-> "disabled",
     prev_button         |-> "disabled",
     next_button         |-> "disabled",
     solutions           |-> 0,           \* len(self.solutions)
     max_solutions       |-> None,
     solver_thread       |-> None,        \* index into threads
     stop_event          |-> None,        \* index of the thread it was made for
     threads             |-> <<>>,        \* the worker threads started so far
     after               |-> <<>>]        \* on_solver_finished calls queued

\* A solver constructed on a board and a catalog, its worker thread started
\* by start_solver_for_board and about to call solve.
SolverInit ==
    /\ board \in Boards
    /\ pentominoes \in Catalogs
    /\ all_piece_orientations =
          [l \in DOMAIN pentominoes |-> generate_orientations(pentominoes[l])]
    /\ max_solutions \in Caps
    /\ stop_event = FALSE
    /\ matrix = None
    /\ root = None
    /\ dlx = EmptyArena
    /\ solutions = <<>>
    /\ canonical_solutions = {}
    /\ partial_solution = <<>>
    /\ stack = <<>>
    /\ pc = "solve"
    /\ progress = <<>>
    /\ posted = None
    /\ gui = [solutions |-> <<>>, message |-> "none"]
    /\ obs = ObsInit
    /\ row_idx = 0

Init == SolverInit /\ og = OgIdle /\ app = AppInit

\* A solve that does not clear canonical_solutions.
solve_begin_keep_canonical ==
    /\ pc = "solve"
    /\ solutions' = <<>>
    /\ obs' = [obs EXCEPT !.stop_at_call = stop_event]
    /\ pc' = "build_matrix"
    /\ UNCHANGED <<board, pentominoes, all_piece_orientations, max_solutions,
                   stop_event, matrix, root, dlx, canonical_solutions,
                   partial_solution, stack, progress, posted, gui, og,
                   row_idx, app>>

\* solve, lines 211-213.
solve_begin ==
    /\ pc = "solve"
    /\ solutions' = <<>>
    /\ canonical_solutions' = {}
    /\ obs' = [obs EXCEPT !.stop_at_call = stop_event]
    /\ pc' = "build_matrix"
    /\ UNCHANGED <<board, pentominoes, all_piece_orientations, max_solutions,
                   stop_event, matrix, root, dlx, partial_solution, stack,
                   progress, posted, gui, og, row_idx, app>>

\* _build_dlx_matrix and solve's lines 216-218.  The flag is only ever set,
\* and an abort leaves nothing behind, so a flag set while the loops run
\* acts as one set before them, as long as a check is still to come.
build_dlx_matrix ==
    /\ pc = "build_matrix"
    /\ IF stop_event
          /\ MatrixIterations(board, pentominoes, all_piece_orientations) > 0
       THEN /\ matrix' = None
            /\ obs' = [obs EXCEPT !.cut_short = TRUE, !.aborted = "matrix"]
            /\ pc' = "returned"
       ELSE /\ matrix' = Some(build_matrix(board, pentominoes,
                                           all_piece_orientations))
            /\ obs' = obs
            /\ pc' = "build_links"
    /\ UNCHANGED <<board, pentominoes, all_piece_orientations, max_solutions,
                   stop_event, root, dlx, solutions, canonical_solutions,
                   partial_solution, stack, progress, posted, gui, og,
                   row_idx, app>>

\* _build_dlx_links, lines 133-142: the root and the columns are created
\* and linked into the header ring; the loop over the rows is entered.
build_dlx_links ==
    /\ pc = "build_links"
    /\ root' = Some(RootId)
    /\ dlx' = HeaderRing(Cardinality(DOMAIN pentominoes) + Len(board))
    /\ row_idx' = 1
    /\ pc' = "link_rows"
    /\ UNCHANGED <<board, pentominoes, all_piece_orientations, max_solutions,
                   stop_event, matrix, solutions, canonical_solutions,
                   partial_solution, stack, progress, posted, gui, obs, og,
                   app>>

\* A pass of the loop over the rows that forgets to give up the root when
\* it sees the flag.
build_dlx_links_row_keep_root ==
    /\ pc = "link_rows"
    /\ IF row_idx > Len(The(matrix))
       THEN /\ partial_solution' = <<>>
            /\ obs' = [obs EXCEPT !.entry = <<AtEntry(dlx, <<>>)>>]
            /\ pc' = "search_entry"
            /\ UNCHANGED <<root, dlx, row_idx>>
       ELSE IF stop_event
       THEN /\ obs' = [obs EXCEPT !.cut_short = TRUE, !.aborted = "links",
                                   !.entry = <<AtEntry(dlx, <<>>)>>]
            /\ partial_solution' = <<>>
            /\ pc' = "search_entry"
            /\ UNCHANGED <<root, dlx, row_idx>>
       ELSE /\ dlx' = LinkRow(dlx, The(matrix)[row_idx], 1, None)
            /\ row_idx' = row_idx + 1
            /\ UNCHANGED <<root, partial_solution, pc, obs>>
    /\ UNCHANGED <<board, pentominoes, all_piece_orientations, max_solutions,
                   stop_event, matrix, solutions, canonical_solutions, stack,
                   progress, posted, gui, og, app>>

\* _build_dlx_links, lines 145-170: one pass of the loop over the rows.  At
\* the end of the matrix, and when the flag is seen, the method returns and
\* solve's line 223 calls _search with [].  A row is linked in one step:
\* nothing else reads the arena while it is built.
build_dlx_links_row ==
    /\ pc = "link_rows"
    /\ IF row_idx > Len(The(matrix))
       THEN /\ partial_solution' = <<>>
            /\ obs' = [obs EXCEPT !.entry = <<AtEntry(dlx, <<>>)>>]
            /\ pc' = "search_entry"
            /\ UNCHANGED <<root, dlx, row_idx>>
       ELSE IF stop_event
       THEN /\ root' = None
            /\ obs' = [obs EXCEPT !.cut_short = TRUE, !.aborted = "links",
                                   !.entry = <<AtEntry(dlx, <<>>)>>]
            /\ partial_solution' = <<>>
            /\ pc' = "search_entry"
            /\ UNCHANGED <<dlx, row_idx>>
       ELSE /\ dlx' = LinkRow(dlx, The(matrix)[row_idx], 1, None)
            /\ row_idx' = row_idx + 1
            /\ UNCHANGED <<root, partial_solution, pc, obs>>
    /\ UNCHANGED <<board, pentominoes, all_piece_orientations, max_solutions,
                   stop_event, matrix, solutions, canonical_solutions, stack,
                   progress, posted, gui, og, app>>

\* An entry of _search that, seeing the flag, waits instead of returning.
search_check_stop_wait ==
    /\ pc = "search_entry"
    /\ pc' = IF stop_event THEN pc ELSE "search_body"
    /\ UNCHANGED <<board, pentominoes, all_piece_orientations, max_solutions,
                   stop_event, matrix, root, dlx, solutions,
                   canonical_solutions, partial_solution, stack, progress,
                   posted, gui, obs, og, row_idx, app>>

\* An entry of _search that never looks at the flag.
search_check_stop_ignored ==
    /\ pc = "search_entry"
    /\ pc' = "search_body"
    /\ UNCHANGED <<board, pentominoes, all_piece_orientations, max_solutions,
                   stop_event, matrix, root, dlx, solutions,
                   canonical_solutions, partial_solution, stack, progress,
                   posted, gui, obs, og, row_idx, app>>

\* _search, lines 233-234: the read of the flag at the entry of a call.
search_check_stop ==
    /\ pc = "search_entry"
    /\ IF stop_event
       THEN /\ obs' = [obs EXCEPT !.cut_short = TRUE]
            /\ pc' = ReturnPc(stack)
       ELSE /\ obs' = obs
            /\ pc' = "search_body"
    /\ UNCHANGED <<board, pentominoes, all_piece_orientations, max_solutions,
                   stop_event, matrix, root, dlx, solutions,
                   canonical_solutions, partial_solution, stack, progress,
                   posted, gui, og, row_idx, app>>

\* _add_solution for the current partial solution, with the given
\* canonical form.
AddSolution(canonical_form) ==
    IF canonical_form \notin canonical_solutions
    THEN /\ canonical_solutions' = canonical_solutions \cup {canonical_form}
         /\ solutions' = Append(solutions, partial_solution)
    ELSE UNCHANGED <<canonical_solutions, solutions>>

\* _search, lines 235-259: the rest of the entry of a call, up to the first
\* evaluation of the loop variable r.
search_body ==
    /\ pc = "search_body"
    /\ IF root = None
       THEN /\ pc' = ReturnPc(stack)
            /\ UNCHANGED <<dlx, solutions, canonical_solutions, stack,
                           progress, obs>>
       ELSE IF max_solutions # None /\ Len(solutions) >= The(max_solutions)
       THEN /\ pc' = ReturnPc(stack)
            /\ UNCHANGED <<dlx, solutions, canonical_solutions, stack,
                           progress, obs>>
       ELSE IF dlx.R[RootId] = RootId
       THEN /\ AddSolution(get_canonical_solution(board, partial_solution))
            /\ progress' = Append(progress, Len(solutions'))
            /\ obs' = [obs EXCEPT !.raw = Append(@, partial_solution)]
            /\ pc' = ReturnPc(stack)
            /\ UNCHANGED <<dlx, stack>>
       ELSE LET c == choose_column(dlx)
                covered == cover(dlx, c)
            IN /\ dlx' = covered
               /\ stack' = Append(stack, [c |-> c, r |-> covered.D[c]])
               /\ pc' = "search_loop"
               /\ UNCHANGED <<solutions, canonical_solutions, progress, obs>>
    /\ UNCHANGED <<board, pentominoes, all_piece_orientations, max_solutions,
                   stop_event, matrix, root, partial_solution, posted, gui,
                   og, row_idx, app>>

\* _search, lines 260-268 and 277: the test of the loop; then either the
\* row is taken and its columns are covered, up to the recursive call, or
\* the column is uncovered and the call returns.
search_loop ==
    /\ pc = "search_loop"
    /\ LET c == Top(stack).c
           r == Top(stack).r
       IN IF r # c
          THEN /\ partial_solution' =
                     Append(partial_solution, The(dlx.row_id[r]))
               /\ dlx' = CoverRowCols(dlx, r, dlx.R[r])
               /\ stack' = stack
               /\ obs' = [obs EXCEPT !.entry =
                            Append(SubSeq(@, 1, Len(stack)),
                                   AtEntry(dlx', partial_solution'))]
               /\ pc' = "search_entry"
          ELSE /\ partial_solution' = partial_solution
               /\ dlx' = uncover(dlx, c)
               /\ stack' = Pop(stack)
               /\ obs' = obs
               /\ pc' = ReturnPc(Pop(stack))
    /\ UNCHANGED <<board, pentominoes, all_piece_orientations, max_solutions,
                   stop_event, matrix, root, solutions, canonical_solutions,
                   progress, posted, gui, og, row_idx, app>>

\* A backtracking step that leaves the row on the partial solution.
search_backtrack_no_pop ==
    /\ pc = "search_backtrack"
    /\ LET r == Top(stack).r
           uncovered == UncoverRowCols(dlx, r, dlx.L[r])
       IN /\ dlx' = uncovered
          /\ stack' = [stack EXCEPT ![Len(stack)].r = uncovered.D[r]]
    /\ pc' = "search_loop"
    /\ UNCHANGED <<board, pentominoes, all_piece_orientations, max_solutions,
                   stop_event, matrix, root, solutions, canonical_solutions,
                   partial_solution, progress, posted, gui, obs, og,
                   row_idx, app>>

\* _search, lines 270-276: after the recursive call returns.
search_backtrack ==
    /\ pc = "search_backtrack"
    /\ LET r == Top(stack).r
           uncovered == UncoverRowCols(dlx, r, dlx.L[r])
       IN /\ dlx' = uncovered
          /\ stack' = [stack EXCEPT ![Len(stack)].r = uncovered.D[r]]
    /\ partial_solution' = Pop(partial_solution)
    /\ pc' = "search_loop"
    /\ UNCHANGED <<board, pentominoes, all_piece_orientations, max_solutions,
                   stop_event, matrix, root, solutions, canonical_solutions,
                   progress, posted, gui, obs, og, row_idx, app>>

\* A run_solver that always reports the search as not cancelled.
run_solver_post_never_cancelled ==
    /\ pc = "returned"
    /\ posted' = Some([solutions |-> solutions, was_cancelled |-> FALSE])
    /\ pc' = "posted"
    /\ UNCHANGED <<board, pentominoes, all_piece_orientations, max_solutions,
                   stop_event, matrix, root, dlx, solutions,
                   canonical_solutions, partial_solution, stack, progress,
                   gui, obs, og, row_idx, app>>

\* run_solver, line 238: solve has returned; the flag is read and the
\* result is posted to the main thread, and the thread ends.
run_solver_post ==
    /\ pc = "returned"
    /\ posted' = Some([solutions |-> solutions, was_cancelled |-> stop_event])
    /\ pc' = "posted"
    /\ UNCHANGED <<board, pentominoes, all_piece_orientations, max_solutions,
                   stop_event, matrix, root, dlx, solutions,
                   canonical_solutions, partial_solution, stack, progress,
                   gui, obs, og, row_idx, app>>

\* on_solver_finished, on the main thread.
on_solver_finished ==
    /\ pc = "posted"
    /\ gui' = [solutions |-> The(posted).solutions,
               message |-> IF The(posted).was_cancelled THEN "cancelled"
                           ELSE IF The(posted).solutions = <<>>
                                THEN "no_solutions" ELSE "none"]
    /\ pc' = "finished"
    /\ UNCHANGED <<board, pentominoes, all_piece_orientations, max_solutions,
                   stop_event, matrix, root, dlx, solutions,
                   canonical_solutions, partial_solution, stack, progress,
                   posted, og, obs, row_idx, app>>

\* cancel_solver, on the main thread: the worker is alive and the Cancel
\* button, disabled by the first click, is still enabled.
cancel_solver ==
    /\ pc \notin {"posted", "finished"}
    /\ ~stop_event
    /\ stop_event' = TRUE
    /\ obs' = [obs EXCEPT !.sols_at_stop = solutions]
    /\ UNCHANGED <<board, pentominoes, all_piece_orientations, max_solutions,
                   matrix, root, dlx, solutions, canonical_solutions,
                   partial_solution, stack, pc, progress, posted, gui, og,
                   row_idx, app>>

Worker ==
    \/ solve_begin
    \/ build_dlx_matrix
    \/ build_dlx_links
    \/ build_dlx_links_row
    \/ search_check_stop
    \/ search_body
    \/ search_loop
    \/ search_backtrack
    \/ run_solver_post

Next ==
    \/ Worker
    \/ on_solver_finished
    \/ cancel_solver

Spec == Init /\ [][Next]_vars

\* The worker is a thread of its own (gui line 216): as long as it has a
\* step to take it is scheduled and takes one.  Nothing is assumed of the
\* main thread: Cancel may be clicked at any point or never.
SpecLive == Init /\ [][Next]_vars /\ WF_vars(Worker)

(***************************************************************************)
(* 8. A second invocation of solve on the same solver                      *)
(***************************************************************************)
\* solve is called again on the solver once it has returned, with the same
\* arguments and the flag unset; what it returned the first time is noted.
solve_again ==
    /\ pc = "returned"
    /\ obs.run = 1
    /\ ~stop_event
    /\ obs' = [obs EXCEPT !.run = 2, !.first_result = Some(solutions)]
    /\ pc' = "solve"
    /\ UNCHANGED <<board, pentominoes, all_piece_orientations, max_solutions,
                   stop_event, matrix, root, dlx, solutions,
                   canonical_solutions, partial_solution, stack, progress,
                   posted, gui, og, row_idx, app>>

NextTwice == Worker \/ solve_again

SpecTwice == Init /\ [][NextTwice]_vars

\* solve run to its end: no cap is given and Cancel is never clicked.  The
\* arenas of these runs are the arenas of all runs, since a cap or a set
\* flag only makes the search return earlier and the row loop of the link
\* building stop earlier.
InitSearch == Init /\ max_solutions = None

NextSearch == Worker

SpecSearch == InitSearch /\ [][NextSearch]_vars

\* Catalogs of single squares under the labels ' ' (32), 'A' (65) and
\* 'B' (66): a label is any dictionary key, the blank of the grid included.
SquareShapes ==
    (32 :> << <<0, 0>> >>) @@ (65 :> << <<0, 0>> >>) @@ (66 :> << <<0, 0>> >>)

SquareCatalogs ==
    {[l \in S |-> SquareShapes[l]] : S \in (SUBSET (DOMAIN SquareShapes)) \ {{}}}

\* A solver constructed on a board and a catalog of either kind, about to
\* run solve to its end with no cap.
InitLabels ==
    /\ board \in Boards
    /\ pentominoes \in Catalogs \cup SquareCatalogs
    /\ all_piece_orientations =
          [l \in DOMAIN pentominoes |-> generate_orientations(pentominoes[l])]
    /\ max_solutions = None
    /\ stop_event = FALSE
    /\ matrix = None
    /\ root = None
    /\ dlx = EmptyArena
    /\ solutions = <<>>
    /\ canonical_solutions = {}
    /\ partial_solution = <<>>
    /\ stack = <<>>
    /\ pc = "solve"
    /\ progress = <<>>
    /\ posted = None
    /\ gui = [solutions |-> <<>>, message |-> "none"]
    /\ obs = ObsInit
    /\ row_idx = 0
    /\ og = OgIdle
    /\ app = AppInit

SpecLabels == InitLabels /\ [][NextSearch]_vars

(***************************************************************************)
(* 9. generate_orientations on drawn shapes                                *)
(***************************************************************************)
ShapeWindow == (-1 .. MaxShapeDim - 2) \X (-1 .. MaxShapeDim - 2)

DrawnShapes ==
    {RowMajor(S) :
        S \in {T \in SUBSET ShapeWindow :
                 T # {} /\ Cardinality(T) <= MaxShapeCells}}

\* No solver is running.
SolverIdle ==
    /\ board = <<>>
    /\ pentominoes = <<>>
    /\ all_piece_orientations = <<>>
    /\ max_solutions = None
    /\ stop_event = FALSE
    /\ matrix = None
    /\ root = None
    /\ dlx = EmptyArena
    /\ solutions = <<>>
    /\ canonical_solutions = {}
    /\ partial_solution = <<>>
    /\ stack = <<>>
    /\ pc = "idle"
    /\ progress = <<>>
    /\ posted = None
    /\ gui = [solutions |-> <<>>, message |-> "none"]
    /\ obs = ObsInit
    /\ row_idx = 0

InitOrient ==
    /\ SolverIdle
    /\ og \in [piece : DrawnShapes, result : {None}]
    /\ app = AppInit

call_generate_orientations ==
    /\ pc = "idle"
    /\ og.result = None
    /\ og' = [og EXCEPT !.result = Some(generate_orientations(og.piece))]
    /\ UNCHANGED <<board, pentominoes, all_piece_orientations, max_solutions,
                   stop_event, matrix, root, dlx, solutions,
                   canonical_solutions, partial_solution, stack, pc, progress,
                   posted, gui, obs, row_idx, app>>

NextOrient == call_generate_orientations

SpecOrient == InitOrient /\ [][NextOrient]_vars

(***************************************************************************)
(* 10. The GUI and the worker threads it starts                            *)
(*                                                                         *)
(* The buttons, the editor and the threads of PentominoGUI.  A thread is   *)
(* the run of run_solver on the PentominoSolver it constructs; what its    *)
(* solve finds is left open here.  A disabled button delivers no click.    *)
(***************************************************************************)
SolverVars ==
    <<board, pentominoes, all_piece_orientations, max_solutions, stop_event,
      matrix, root, dlx, solutions, canonical_solutions, partial_solution,
      stack, pc, progress, posted, gui, obs, og, row_idx>>

\* validate_and_solve, line 170: the least number of selected squares.
MinCells == 5

\* What the entry for the maximum may hold, read with int().
EntryTexts == {None} \cup {Some(v) : v \in 0 .. MaxCap}

set_controls_state(a, state) ==
    [a EXCEPT !.prev_button = state, !.next_button = state,
              !.clear_button = state, !.new_puzzle_button = state]

\* start_solver_for_board on the GUI a: the new thread gets an event of its
\* own, and run_solver will construct a solver of its own (line 228).
start_solver_for_board(a, max_sols) ==
    LET t == Len(a.threads) + 1
        b == set_controls_state(
                 [a EXCEPT !.solutions = 0, !.max_solutions = max_sols],
                 "disabled")
    IN [b EXCEPT !.cancel_button = "normal",
                 !.stop_event = Some(t),
                 !.solver_thread = Some(t),
                 !.threads = Append(@, [state |-> "running",
                                        solver |-> t,
                                        stop_event |-> FALSE,
                                        solutions |-> 0,
                                        was_cancelled |-> FALSE])]

\* _reset_board_state.
reset_board_state(a) ==
    [a EXCEPT !.active_cells = 0, !.solutions = 0,
              !.prev_button = "disabled", !.next_button = "disabled",
              !.clear_button = "disabled", !.solve_button = "normal",
              !.new_puzzle_button = "normal"]

InitGui == SolverIdle /\ og = OgIdle /\ app = AppInit

\* paint_cell: a square is added to or removed from the selection.
paint_cell ==
    /\ \E n \in {app.active_cells - 1, app.active_cells + 1} :
          /\ n \in 0 .. MaxActiveCells
          /\ app' = [app EXCEPT !.active_cells = n]
    /\ UNCHANGED SolverVars

\* A click on the "Limit solutions" box, and toggle_max_solutions_entry.
toggle_max_solutions_entry ==
    /\ app' = [app EXCEPT
                 !.limit_solutions_var = ~@,
                 !.max_solutions_entry =
                     IF ~app.limit_solutions_var THEN "normal"
                     ELSE "disabled"]
    /\ UNCHANGED SolverVars

\* The user types into the entry for the maximum.
edit_max_solutions ==
    /\ app.max_solutions_entry = "normal"
    /\ \E v \in EntryTexts : app' = [app EXCEPT !.max_solutions_var = v]
    /\ UNCHANGED SolverVars

\* A click on "Solve Custom Board".
validate_and_solve ==
    /\ app.solve_button = "normal"
    /\ Len(app.threads) < MaxWorkers
    /\ IF app.active_cells < MinCells
       THEN app' = app
       ELSE IF /\ app.limit_solutions_var
               /\ \/ app.max_solutions_var = None
                  \/ The(app.max_solutions_var) <= 0
       THEN app' = app
       ELSE app' = start_solver_for_board(
                       [app EXCEPT !.clear_button = "disabled"],
                       IF app.limit_solutions_var
                       THEN app.max_solutions_var ELSE None)
    /\ UNCHANGED SolverVars

\* run_solver on a worker thread: solve returns, the thread's own event is
\* read, on_solver_finished is queued for the main thread, the thread ends.
app_run_solver ==
    /\ \E t \in DOMAIN app.threads : \E n \in 0 .. MaxFound :
          /\ app.threads[t].state = "running"
          /\ app' = [app EXCEPT
                       !.threads[t].state = "ended",
                       !.threads[t].solutions = n,
                       !.threads[t].was_cancelled =
                           app.threads[t].stop_event,
                       !.after = Append(@, t)]
    /\ UNCHANGED SolverVars

\* on_solver_finished with the result of the thread at the head of the
\* queue.
app_on_solver_finished ==
    /\ app.after # <<>>
    /\ LET t == Head(app.after)
           a == [app EXCEPT !.cancel_button = "disabled",
                            !.clear_button = "normal",
                            !.new_puzzle_button = "normal",
                            !.solutions = app.threads[t].solutions,
                            !.threads[t].state = "finished",
                            !.after = Tail(@)]
       IN app' = IF a.solutions > 0 THEN set_controls_state(a, "normal")
                 ELSE a
    /\ UNCHANGED SolverVars

\* A click on "Cancel".
app_cancel_solver ==
    /\ app.cancel_button = "normal"
    /\ IF /\ app.solver_thread # None
          /\ app.threads[The(app.solver_thread)].state = "running"
          /\ app.stop_event # None
       THEN app' = [app EXCEPT
                      !.threads[The(app.stop_event)].stop_event = TRUE,
                      !.cancel_button = "disabled"]
       ELSE app' = app
    /\ UNCHANGED SolverVars

\* A click on "Clear Pieces".
clear_pieces ==
    /\ app.clear_button = "normal"
    /\ IF app.solutions = 0
       THEN app' = app
       ELSE app' = [app EXCEPT !.solutions = 0,
                               !.prev_button = "disabled",
                               !.next_button = "disabled",
                               !.solve_button = "normal",
                               !.clear_button = "normal"]
    /\ UNCHANGED SolverVars

\* A click on "New Puzzle".
new_puzzle ==
    /\ app.new_puzzle_button = "normal"
    /\ app' = [reset_board_state(app) EXCEPT
                 !.limit_solutions_var = FALSE,
                 !.max_solutions_entry = "disabled"]
    /\ UNCHANGED SolverVars

NextGui ==
    \/ paint_cell
    \/ toggle_max_solutions_entry
    \/ edit_max_solutions
    \/ validate_and_solve
    \/ app_run_solver
    \/ app_on_solver_finished
    \/ app_cancel_solver
    \/ clear_pieces
    \/ new_puzzle

SpecGui == InitGui /\ [][NextGui]_vars

(***************************************************************************)
(* 11. Properties                                                          *)
(*                                                                         *)
(* What a tiling is, and which grids are the same up to the symmetries of  *)
(* a rectangle, is stated here on sets of cells, apart from the matrix and *)
(* the links of the solver.                                                *)
(***************************************************************************)
\* solve has returned.
Returned == pc \in {"returned", "posted", "finished"}

BoardCells == Range(board)

IsRectangle ==
    BoardCells = (0 .. board_height(board) - 1) \X (0 .. board_width(board) - 1)

\* The cells a placement (piece_name, orientation, anchor) lies on.
PlacementCells(p) ==
    {<<p[3][1] + p[2][k][1], p[3][2] + p[2][k][2]>> : k \in DOMAIN p[2]}

\* Every board cell is on exactly one placement, no placement leaves the
\* board, and no label is used twice.
IsExactCover(sol) ==
    /\ \A i \in DOMAIN sol : PlacementCells(sol[i]) \subseteq BoardCells
    /\ \A x \in BoardCells :
          Cardinality({i \in DOMAIN sol : x \in PlacementCells(sol[i])}) = 1
    /\ \A i, j \in DOMAIN sol : i # j => sol[i][1] # sol[j][1]

\* The label grid of a solution over the bounding box of the board.
SolutionGrid(sol) ==
    [r \in 1 .. board_height(board) |->
        [c \in 1 .. board_width(board) |->
            IF \E i \in DOMAIN sol : <<r - 1, c - 1>> \in PlacementCells(sol[i])
            THEN sol[CHOOSE i \in DOMAIN sol :
                        <<r - 1, c - 1>> \in PlacementCells(sol[i])][1]
            ELSE Blank]]

Rot(S) == {<<0 - x[2], x[1]>> : x \in S}
Refl(S) == {<<0 - x[1], x[2]>> : x \in S}
Shift0(S) ==
    LET mr == Min({x[1] : x \in S})
        mc == Min({x[2] : x \in S})
    IN {<<x[1] - mr, x[2] - mc>> : x \in S}

\* The up to eight ways a shape can lie, each moved to the origin.
Lies(S) ==
    {Shift0(T) : T \in {S, Rot(S), Rot(Rot(S)), Rot(Rot(Rot(S))),
                        Refl(S), Rot(Refl(S)), Rot(Rot(Refl(S))),
                        Rot(Rot(Rot(Refl(S))))}}

\* Every way of laying one catalog piece on cells of the board.
AllPlacements ==
    {pl \in {[label |-> l,
              cells |-> {<<x[1] + t[1], x[2] + t[2]>> : x \in O}] :
                <<l, O, t>> \in
                   UNION {{l} \X Lies(Range(pentominoes[l])) \X
                          ((0 .. board_height(board) - 1) \X
                           (0 .. board_width(board) - 1)) :
                             l \in DOMAIN pentominoes}} :
        pl.cells \subseteq BoardCells}

\* The tilings of the given cells by pieces of the given labels, each piece
\* used at most once.
RECURSIVE TilingsOf(_, _)
TilingsOf(cells, labels) ==
    IF cells = {} THEN {{}}
    ELSE LET x == CHOOSE y \in cells : \A z \in cells : CellLeq(y, z)
         IN UNION {{{pl} \cup T :
                       T \in TilingsOf(cells \ pl.cells, labels \ {pl.label})} :
                   pl \in {q \in AllPlacements :
                             /\ x \in q.cells
                             /\ q.cells \subseteq cells
                             /\ q.label \in labels}}

Tilings == TilingsOf(BoardCells, DOMAIN pentominoes)

\* The tilings that use every piece of the catalog.
ExactTilings ==
    {T \in Tilings : {pl.label : pl \in T} = DOMAIN pentominoes}

TilingGrid(T) ==
    [r \in 1 .. board_height(board) |->
        [c \in 1 .. board_width(board) |->
            IF \E pl \in T : <<r - 1, c - 1>> \in pl.cells
            THEN (CHOOSE pl \in T : <<r - 1, c - 1>> \in pl.cells).label
            ELSE Blank]]

IsPrefix(s, t) == Len(s) <= Len(t) /\ SubSeq(t, 1, Len(s)) = s

\* C1: with max_solutions unset and no cancellation, every solution that
\* solve returns covers every board cell exactly once, stays on the board
\* and uses each piece label at most once.
C1_ReturnedSolutionsAreExactCovers ==
    (Returned /\ max_solutions = None /\ ~stop_event)
        => \A i \in DOMAIN solutions : IsExactCover(solutions[i])

C1_Witness ==
    Returned /\ max_solutions = None /\ ~stop_event /\ Len(solutions) >= 2

\* C2: with max_solutions unset and no cancellation, solve returns, up to
\* the four symmetries, every tiling of the board that covers each cell
\* once and uses each catalog piece at most once.
C2_EveryTilingIsReturned ==
    (Returned /\ max_solutions = None /\ ~stop_event)
        => \A T \in Tilings :
              \E i \in DOMAIN solutions :
                 SolutionGrid(solutions[i]) \in forms(TilingGrid(T))

\* C3: on a rectangular board no two entries of the solution list have
\* grids related by a flip or the half turn, and every full solution the
\* search reached is related to exactly one entry.
C3_OneEntryPerSymmetryClass ==
    IsRectangle =>
        /\ \A i, j \in DOMAIN solutions :
              i < j => SolutionGrid(solutions[j])
                          \notin forms(SolutionGrid(solutions[i]))
        /\ \A k \in DOMAIN obs.raw :
              Cardinality({i \in DOMAIN solutions :
                              SolutionGrid(solutions[i])
                                 \in forms(SolutionGrid(obs.raw[k]))}) = 1

C3_Witness ==
    /\ IsRectangle
    /\ Returned
    /\ Len(solutions) >= 2
    /\ Len(obs.raw) > Len(solutions)

\* C4: with max_solutions = k and no cancellation, solve returns at most k
\* solutions, and exactly k when the board has at least k tilings that
\* differ under the four symmetries.
C4_CapReachedWhenEnoughTilings ==
    (Returned /\ max_solutions # None /\ ~stop_event)
        => /\ Len(solutions) <= The(max_solutions)
           /\ Cardinality({forms(TilingGrid(T)) : T \in ExactTilings})
                 >= The(max_solutions)
              => Len(solutions) = The(max_solutions)

\* C5: once the stop flag is set, at most one further solution is accepted,
\* the solutions accepted before stay in the list in their order, and every
\* solution in the list is a complete exact cover.
C5_CancellationKeepsAcceptedSolutions ==
    stop_event =>
        /\ IsPrefix(obs.sols_at_stop, solutions)
        /\ Len(solutions) <= Len(obs.sols_at_stop) + 1
        /\ \A i \in DOMAIN solutions : IsExactCover(solutions[i])

C5_Witness ==
    /\ stop_event
    /\ Returned
    /\ Len(obs.sols_at_stop) >= 1
    /\ Len(solutions) = Len(obs.sols_at_stop) + 1

\* C6: if the stop flag is already set when solve is called, solve returns
\* an empty list and the caller is told that the search was cancelled.
C6_CancelledBeforeSolve ==
    /\ (Returned /\ obs.stop_at_call) => solutions = <<>>
    /\ (posted # None /\ obs.stop_at_call)
          => /\ The(posted).was_cancelled
             /\ The(posted).solutions = <<>>

C6_Witness ==
    /\ posted # None
    /\ obs.stop_at_call
    /\ Len(board) = 4
    /\ DOMAIN pentominoes = {68, 69}
    /\ The(posted).was_cancelled

\* C7: was_cancelled, as posted with the result, is true exactly when a
\* cancellation check cut the work short.
C7_CancelledIffCutShort ==
    posted # None => (The(posted).was_cancelled <=> obs.cut_short)

\* C8: a second invocation of solve with the same board, catalog and
\* max_solutions, and no cancellation, returns the same solutions in the
\* same order as the first.
C8_SecondInvocationReturnsTheSame ==
    (pc = "returned" /\ obs.run = 2) => solutions = The(obs.first_result)

C8_Witness == pc = "returned" /\ obs.run = 2 /\ Len(solutions) >= 2

\* C9: generate_orientations returns between 1 and 8 orientations, each
\* normalized (least row and column zero, cells sorted), and rotating any
\* of them by (r, c) -> (-c, r) and moving it back to the origin gives the
\* cells of one of them.
C9_OrientationsClosedUnderRotation ==
    og.result # None =>
        LET O == The(og.result)
        IN /\ Cardinality(Range(O)) \in 1 .. 8
           /\ \A i \in DOMAIN O :
                 /\ Shift0(Range(O[i])) = Range(O[i])
                 /\ \A k \in 1 .. Len(O[i]) - 1 : CellLeq(O[i][k], O[i][k + 1])
                 /\ \E j \in DOMAIN O : Range(O[j]) = Shift0(Rot(Range(O[i])))

C9_Witness ==
    og.result # None /\ Cardinality(Range(The(og.result))) = 8

C11_ProgressCountIsRaw ==
    /\ Len(progress) = Len(obs.raw)
    /\ \A k \in DOMAIN progress : progress[k] = k

\* The worker threads whose solve call has not returned yet.
InFlight == {t \in DOMAIN app.threads : app.threads[t].state = "running"}

\* C12: whatever the user clicks, at most one worker is in flight, and no
\* two workers in flight work on the same solver, that is on the same link
\* structure and solution list.
C12_AtMostOneWorkerInFlight ==
    /\ Cardinality(InFlight) <= 1
    /\ \A s, t \in InFlight :
          s # t => app.threads[s].solver # app.threads[t].solver

\* The columns of an arena still in the header ring, rightwards from the
\* root.
RECURSIVE RingFrom(_, _)
RingFrom(ls, j) ==
    IF j = RootId THEN <<>> ELSE <<j>> \o RingFrom(ls, ls.R[j])

HeaderSeq(ls) == RingFrom(ls, ls.R[RootId])

\* The nodes of column c's vertical ring, downwards from the header.
RECURSIVE DownFrom(_, _, _)
DownFrom(ls, c, i) ==
    IF i = c THEN <<>> ELSE <<i>> \o DownFrom(ls, c, ls.D[i])

VRing(ls, c) == DownFrom(ls, c, ls.D[c])

\* The nodes of the row of node i, i included.
RECURSIVE RightFrom(_, _, _)
RightFrom(ls, i, j) ==
    IF j = i THEN {i} ELSE {j} \cup RightFrom(ls, i, ls.R[j])

RowNodes(ls, i) == RightFrom(ls, i, ls.R[i])

RECURSIVE Without(_, _)
Without(seq, N) ==
    IF seq = <<>> THEN <<>>
    ELSE IF Head(seq) \in N THEN Without(Tail(seq), N)
    ELSE <<Head(seq)>> \o Without(Tail(seq), N)

\* All columns of the arena, covered or not.
Columns == 1 .. (Cardinality(DOMAIN pentominoes) + Len(board))

\* The arenas between the single covers of lines 262-265 for row r, and
\* between the single uncovers of lines 271-274.
RECURSIVE RowCoverStates(_, _, _)
RowCoverStates(ls, r, j) ==
    IF j = r THEN {ls}
    ELSE LET a == cover(ls, ls.col[j])
         IN {ls} \cup RowCoverStates(a, r, a.R[j])

RECURSIVE RowUncoverStates(_, _, _)
RowUncoverStates(ls, r, j) ==
    IF j = r THEN {ls}
    ELSE LET a == uncover(ls, ls.col[j])
         IN {ls} \cup RowUncoverStates(a, r, a.L[j])

\* Every arena the solver holds at this point or passes through in its
\* next step: after the rows linked so far, and after each cover and
\* uncover of the search.
Structures ==
    IF dlx = EmptyArena THEN {}
    ELSE IF pc = "search_loop" /\ Top(stack).r # Top(stack).c
    THEN RowCoverStates(dlx, Top(stack).r, dlx.R[Top(stack).r])
    ELSE IF pc = "search_backtrack"
    THEN RowUncoverStates(dlx, Top(stack).r, dlx.L[Top(stack).r])
    ELSE {dlx}

\* C13: on every arena of the search and for every column c in the header
\* ring, cover(c) followed by uncover(c) gives back the arena: all links
\* and all sizes are as before.
C13_CoverUncoverRoundTrip ==
    root # None =>
        \A ls \in Structures : \A c \in Range(HeaderSeq(ls)) :
            uncover(cover(ls, c), c) = ls

C13_Witness ==
    /\ root # None
    /\ pc = "search_loop"
    /\ Top(stack).r # Top(stack).c
    /\ Cardinality(Structures) >= 3
    /\ \E c \in Range(HeaderSeq(dlx)) :
          /\ dlx.size[c] >= 1
          /\ cover(dlx, c).size # dlx.size

\* C14: after each row linked and after every cover and uncover, every
\* column, covered or not, has as many nodes on its vertical ring as its
\* size says.
C14_SizeIsRingLength ==
    \A ls \in Structures : \A c \in Columns :
        Len(VRing(ls, c)) = ls.size[c]

C14_Witness ==
    /\ pc = "search_loop"
    /\ Top(stack).r # Top(stack).c
    /\ Cardinality(Structures) >= 3
    /\ Len(HeaderSeq(dlx)) < Cardinality(Columns)
    /\ \E c \in Range(HeaderSeq(dlx)) : dlx.size[c] >= 1
    /\ \E c \in Columns \ Range(HeaderSeq(dlx)) : dlx.size[c] >= 2

\* The rows of the built matrix as placements: label and cells.
MatrixPlacements ==
    [i \in DOMAIN The(matrix) |->
        [label |-> The(matrix)[i].row_info[1],
         cells |-> PlacementCells(The(matrix)[i].row_info)]]

\* C15: the matrix has exactly one row for every piece, orientation and
\* translation whose cells are all board cells, on boards of any shape,
\* whether or not the translation's anchor is a board cell.
C15_OneRowPerPlacement ==
    matrix # None =>
        /\ \A pl \in AllPlacements :
              Cardinality({i \in DOMAIN MatrixPlacements :
                              MatrixPlacements[i] = pl}) = 1
        /\ \A i \in DOMAIN MatrixPlacements :
              MatrixPlacements[i] \in AllPlacements

\* C16: every solution in the list has exactly one placement for every
\* piece label of the catalog.
C16_EveryPieceExactlyOnce ==
    \A i \in DOMAIN solutions :
        /\ \A l \in DOMAIN pentominoes :
              Cardinality({k \in DOMAIN solutions[i] :
                              solutions[i][k][1] = l}) = 1
        /\ \A k \in DOMAIN solutions[i] :
              solutions[i][k][1] \in DOMAIN pentominoes

C16_Witness ==
    /\ Returned
    /\ Len(solutions) >= 1
    /\ DOMAIN pentominoes = {68, 69}
    /\ Len(board) = 4

\* The first column, in header order, whose size no column of the header
\* ring undercuts.
FirstOfLeastSize(ls) ==
    LET h == HeaderSeq(ls)
        k == CHOOSE i \in DOMAIN h :
                /\ \A j \in DOMAIN h : ls.size[h[i]] <= ls.size[h[j]]
                /\ \A j \in 1 .. i - 1 : ls.size[h[j]] > ls.size[h[i]]
    IN h[k]

\* Column k of the arena stands for the k-th piece label in ascending
\* order, or, after the labels, for the board cell of that index: every
\* node on its ring belongs to a placement of that piece, or on that cell.
ColumnStandsFor(ls, k) ==
    LET np == Cardinality(DOMAIN pentominoes)
    IN \A x \in Range(VRing(ls, k)) :
          LET info == The(ls.row_id[x])
          IN IF k <= np
             THEN Cardinality({l \in DOMAIN pentominoes : l < info[1]})
                     = k - 1
             ELSE board[k - np] \in PlacementCells(info)

\* C17: the column a search step branches on is the first column of least
\* size met from the root rightwards, and before the search the header
\* ring holds the piece labels in sorted order, then the board cells in
\* board order.
C17_ChoosesFirstColumnOfLeastSize ==
    /\ [][(pc = "search_body" /\ pc' = "search_loop")
             => Top(stack').c = FirstOfLeastSize(dlx)]_vars
    /\ []((pc = "search_entry" /\ stack = <<>> /\ root # None)
             => /\ HeaderSeq(dlx) = [k \in Columns |-> k]
                /\ \A k \in Columns : ColumnStandsFor(dlx, k))

\* A branching column that was not the first of the header ring and that
\* tied with another column.
C17_Witness ==
    /\ pc = "search_loop"
    /\ root # None
    /\ LET c == Top(stack).c
           before == uncover(dlx, c)
       IN /\ c # Head(HeaderSeq(before))
          /\ \E k \in Range(HeaderSeq(before)) \ {c} :
                before.size[k] = before.size[c]
          /\ before.size[c] >= 1

\* C18: once the list holds max_solutions solutions, no step of the search
\* adds a placement to the partial solution or covers a column.
C18_NoBranchAfterCap ==
    [][(max_solutions # None /\ Len(solutions) >= The(max_solutions))
          => /\ Len(partial_solution') <= Len(partial_solution)
             /\ Len(HeaderSeq(dlx')) >= Len(HeaderSeq(dlx))]_vars

\* C19: when a cancellation check of the placement enumeration is hit, no
\* matrix comes back, nothing is linked and solve returns an empty list;
\* when a check of the link building is hit, root is None, the arena linked
\* so far is never touched again, the search places nothing and solve
\* returns an empty list.  A build that ran to its end, even with no
\* placement at all, has a matrix and a root.
C19_AbortedBuildIsNeverSearched ==
    /\ [](obs.aborted = "matrix"
            => /\ matrix = None
               /\ root = None
               /\ dlx = EmptyArena
               /\ Returned
               /\ solutions = <<>>)
    /\ [](obs.aborted = "links"
            => /\ root = None
               /\ stack = <<>>
               /\ partial_solution = <<>>
               /\ solutions = <<>>)
    /\ [][obs.aborted = "links" => dlx' = dlx]_vars
    /\ []((obs.aborted = "none" /\ pc \notin {"solve", "build_matrix"})
            => matrix # None)
    /\ []((obs.aborted = "none"
             /\ pc \notin {"solve", "build_matrix", "build_links"})
            => root # None)

\* The link building was abandoned with some rows linked, and solve has
\* returned.
C19_Witness ==
    /\ obs.aborted = "links"
    /\ Returned
    /\ row_idx >= 2
    /\ row_idx <= Len(The(matrix))
    /\ \E c \in Columns : dlx.size[c] >= 1

\* The nodes cover(c) unlinks on the arena ls: the nodes, other than the
\* one in c, of every row with a node on c's vertical ring.
Unlinked(ls, c) ==
    UNION {RowNodes(ls, i) \ {i} : i \in Range(VRing(ls, c))}

\* C20: cover(c) takes c out of the header ring, unlinks from the vertical
\* rings of the other columns exactly the nodes off c of the rows that have
\* a node in c, lowers those columns' sizes by one per node unlinked, and
\* leaves the vertical ring of c and the size of c as they are.
C20_CoverFrame ==
    root # None =>
        \A ls \in Structures : \A c \in Range(HeaderSeq(ls)) :
            LET a == cover(ls, c)
                N == Unlinked(ls, c)
            IN /\ HeaderSeq(a) = Without(HeaderSeq(ls), {c})
               /\ \A k \in Columns \ {c} :
                     /\ VRing(a, k) = Without(VRing(ls, k), N)
                     /\ a.size[k] = ls.size[k]
                           - Cardinality({x \in N : ls.col[x] = k})
               /\ VRing(a, c) = VRing(ls, c)
               /\ a.size[c] = ls.size[c]
               /\ \A x \in {c} \cup Range(VRing(ls, c)) :
                     a.U[x] = ls.U[x] /\ a.D[x] = ls.D[x]

C20_Witness ==
    /\ root # None
    /\ pc = "search_loop"
    /\ \E c \in Range(HeaderSeq(dlx)) :
          /\ dlx.size[c] >= 2
          /\ Cardinality(Unlinked(dlx, c)) >= 4


(***************************************************************************)
(* C21                                                                     *)
(***************************************************************************)
\* A step in which a call of _search returns: at line 234 (flag), 236 (no
\* root), 238 (cap), 245 (solution) or after line 277 (rows exhausted).
SearchReturns ==
    /\ pc \in {"search_entry", "search_body", "search_loop"}
    /\ pc' \in {"search_backtrack", "returned"}

\* C21: every call of _search returns with the arena (links, header ring,
\* sizes) and the partial solution equal to what they were at its entry, on
\* every return path; and once solve has returned after a search, the arena
\* is the one the build produced and the partial solution is empty.
C21_SearchRestoresStructure ==
    /\ [][SearchReturns =>
            /\ Len(obs.entry) > Len(stack')
            /\ dlx' = obs.entry[Len(stack') + 1].dlx
            /\ partial_solution' = obs.entry[Len(stack') + 1].partial_solution
         ]_vars
    /\ [](Returned /\ obs.entry # <<>> =>
            /\ dlx = obs.entry[1].dlx
            /\ partial_solution = <<>>
            /\ stack = <<>>)

\* solve has returned from a search that reached two solutions, so rows
\* were taken and given back at two levels, and the arena is the built one.
C21_Witness ==
    /\ pc = "returned"
    /\ Len(obs.raw) >= 2
    /\ obs.entry # <<>>
    /\ ~obs.cut_short
    /\ dlx = obs.entry[1].dlx
    /\ \E c \in Columns : dlx.size[c] >= 2

(***************************************************************************)
(* C22                                                                     *)
(***************************************************************************)
\* C22: solve terminates on every board and catalog, with and without a
\* cap, and with the flag set at any point of the build or the search or
\* never: every run in which the worker keeps being scheduled reaches the
\* return of solve.
C22_SolveTerminates == <>Returned

\* solve has returned from a search that a set flag cut short after a
\* solution had been kept.
C22_Witness ==
    /\ pc = "returned"
    /\ stop_event
    /\ obs.cut_short
    /\ obs.aborted = "none"
    /\ solutions # <<>>

(***************************************************************************)
(* C23                                                                     *)
(***************************************************************************)
\* The flips of a set of squares over the bounding box of the board.
HFlipCells(S) == {<<x[1], board_width(board) - 1 - x[2]>> : x \in S}
VFlipCells(S) == {<<board_height(board) - 1 - x[1], x[2]>> : x \in S}

\* The four transforms, of a grid and of a set of squares, in one order.
GridTransforms(g) == <<g, h_flip(g), v_flip(g), h_flip(v_flip(g))>>
CellTransforms(S) ==
    <<S, HFlipCells(S), VFlipCells(S), HFlipCells(VFlipCells(S))>>

\* A step in which _add_solution is handed a solution and does not keep it.
Discards == Len(obs.raw') > Len(obs.raw) /\ solutions' = solutions

\* The discarded solution's grid is a transform of a kept solution's grid,
\* under a transform that maps the board onto itself.
CollapseIsSymmetry ==
    \E i \in DOMAIN solutions : \E t \in 1 .. 4 :
        /\ SolutionGrid(solutions[i])
              = GridTransforms(SolutionGrid(partial_solution))[t]
        /\ CellTransforms(BoardCells)[t] = BoardCells

\* Every solution the search reached is kept or has a kept solution among
\* the four transforms of its grid.
EveryFoundIsRepresented ==
    \A k \in DOMAIN obs.raw :
        \E i \in DOMAIN solutions :
            SolutionGrid(solutions[i]) \in forms(SolutionGrid(obs.raw[k]))

\* C23 as stated: on a board of any shape and with any catalog, a solution
\* is discarded only if a kept solution's grid is one of the four transforms
\* of its grid, and that transform is a symmetry of the board.
C23_CollapseIsBoardSymmetry ==
    /\ [][Discards => CollapseIsSymmetry]_vars
    /\ []EveryFoundIsRepresented

\* C23 for catalogs in which no piece is labelled with the blank of the
\* grid: on a board of any shape a solution is discarded only if a kept
\* solution's grid is one of the four transforms of its grid, and that
\* transform is a symmetry of the board.
C23_CollapseIsBoardSymmetryNoBlankLabel ==
    /\ [][(Discards /\ Blank \notin DOMAIN pentominoes)
              => CollapseIsSymmetry]_vars
    /\ []EveryFoundIsRepresented

\* A solution has been discarded on a board that is no rectangle, with no
\* blank label in the catalog.
C23_Witness ==
    /\ ~IsRectangle
    /\ Blank \notin DOMAIN pentominoes
    /\ Len(obs.raw) > Len(solutions)
    /\ solutions # <<>>

(***************************************************************************)
(* C24                                                                     *)
(***************************************************************************)
\* The squares of S that can be reached from R by steps to a neighbour.
RECURSIVE Grow(_, _)
Grow(S, R) ==
    LET N == R \cup {x \in S : \E y \in R :
                        \/ (x[1] = y[1] /\ (x[2] = y[2] + 1 \/ y[2] = x[2] + 1))
                        \/ (x[2] = y[2] /\ (x[1] = y[1] + 1 \/ y[1] = x[1] + 1))}
    IN IF N = R THEN R ELSE Grow(S, N)

Connected(S) == S # {} /\ Grow(S, {CHOOSE x \in S : TRUE}) = S

\* A catalog entry as the catalog format asks for it: five distinct cells,
\* connected.
WellFormed(shape) ==
    /\ Len(shape) = 5
    /\ Cardinality(Range(shape)) = 5
    /\ Connected(Range(shape))

\* C24: a catalog entry that is malformed (not exactly five cells, or not
\* connected) has no row in the matrix, on any board.
C24_MalformedEntriesYieldNoRows ==
    matrix # None =>
        \A k \in DOMAIN The(matrix) :
            WellFormed(pentominoes[The(matrix)[k].row_info[1]])

==========================================================================
